---- MODULE Spec2Model ----
(***************************************************************************)
(* Model of scripts/scrape_blog.py: the slug/text normalizer, the post     *)
(* extractor, the listing crawler and the orchestrator (main).             *)
(*                                                                         *)
(* Strings are sequences of character tokens.  A token is a one-character  *)
(* string, or a name for a character outside ASCII:                        *)
(*   "tr-g" "tr-u" "tr-s" "tr-i" "tr-o" "tr-c"  the Turkish lower-case     *)
(*                                    letters g-breve, u-umlaut, s-cedilla,*)
(*                                    dotless i, o-umlaut, c-cedilla       *)
(*   "TR-S" "TR-I"                    capital s-cedilla, capital dotted I  *)
(*   "DOT-ABOVE"                      U+0307, the combining dot            *)
(*   "cyr-ya" "CYR-YA"                a Cyrillic letter, lower and upper   *)
(*   "TAB" "NBSP"                     a tab, a no-break space              *)
(***************************************************************************)
EXTENDS Integers, Sequences, FiniteSets, TLC

VARIABLES
    \* find_all_blog_links
    pc,            \* where main is: "crawl", "crawled", "loop", "done", "aborted"
    page,          \* the local page
    links,         \* the local links
    requests,      \* ghost: the page numbers requested, in order
    lastFetch,     \* ghost: what the last requested listing page answered, in short
    seenBefore,    \* ghost: links as it was before the last requested page
    served,        \* ghost: the blog URLs the fetched listing pages carried
    \* main
    blog_urls,     \* the crawler's return value
    todo,          \* what the for loop has still to visit
    scraped_count,
    files,         \* CONTENT_DIR: slug -> the record written to <slug>.json
    calls,         \* ghost: url -> number of scrape_blog_post(url) calls
    outcome,       \* ghost: url -> what its scrape_blog_post call ended as
    writes,        \* ghost: the (url, slug) pairs written, in order
    downloads,     \* ghost: the download_image calls made
    \* generate_slug on its own
    slugIn, slugOut, slugAgain,
    \* calculate_reading_time on its own
    text, minutes,
    \* scrape_blog_post on its own
    exUrl, exPage, exResult

crawlVars == <<pc, page, links, requests, lastFetch, seenBefore, served>>
mainVars == <<blog_urls, todo, scraped_count, files, calls, outcome, writes, downloads>>
slugVars == <<slugIn, slugOut, slugAgain>>
readVars == <<text, minutes>>
extractVars == <<exUrl, exPage, exResult>>
vars == <<crawlVars, mainVars, slugVars, readVars, extractVars>>

\* An optional value is a sequence: None, or <<x>> for the value x
None == <<>>
Some(x) == <<x>>

(***************************************************************************)
(* Bounds of the model                                                     *)
(***************************************************************************)
\* the longest title generate_slug is tried on
MaxTitleLen == 4
\* the most repetitions of a unit in a text calculate_reading_time is tried on
MaxRepeat == 450
\* the number of blog posts the site has
NumPosts == 3
\* the most anchors on one listing page
MaxAnchors == 2

(***************************************************************************)
(* Characters                                                              *)
(***************************************************************************)
LowerLetters == <<"a", "b", "c", "d", "e", "f", "g", "h", "i", "j", "k", "l", "m",
                  "n", "o", "p", "q", "r", "s", "t", "u", "v", "w", "x", "y", "z">>
UpperLetters == <<"A", "B", "C", "D", "E", "F", "G", "H", "I", "J", "K", "L", "M",
                  "N", "O", "P", "Q", "R", "S", "T", "U", "V", "W", "X", "Y", "Z">>
AsciiLower == {LowerLetters[i] : i \in 1..Len(LowerLetters)}
AsciiUpper == {UpperLetters[i] : i \in 1..Len(UpperLetters)}
Digits == {"0", "1", "2", "3", "4", "5", "6", "7", "8", "9"}
TurkishLower == {"tr-g", "tr-u", "tr-s", "tr-i", "tr-o", "tr-c"}
OtherLetters == {"TR-S", "TR-I", "cyr-ya", "CYR-YA"}
\* what \s matches in a str pattern
Whitespace == {" ", "TAB", "NBSP"}
\* what \w matches in a str pattern
WordChars == AsciiLower \cup AsciiUpper \cup Digits \cup TurkishLower \cup OtherLetters \cup {"_"}

\* str.lower() of one character; the capital dotted I lowers to two characters
LowerChar(c) ==
    CASE c \in AsciiUpper -> <<LowerLetters[CHOOSE i \in 1..Len(UpperLetters) : UpperLetters[i] = c]>>
      [] c = "TR-S" -> <<"tr-s">>
      [] c = "TR-I" -> <<"i", "DOT-ABOVE">>
      [] c = "CYR-YA" -> <<"cyr-ya">>
      [] OTHER -> <<c>>

RECURSIVE Flatten(_)
Flatten(ss) == IF ss = <<>> THEN <<>> ELSE Head(ss) \o Flatten(Tail(ss))

\* str.lower()
Lower(s) == Flatten([i \in 1..Len(s) |-> LowerChar(s[i])])

\* the chain of str.replace calls of generate_slug, on one character
ReplaceTurkish(c) ==
    CASE c = "tr-g" -> "g"
      [] c = "tr-u" -> "u"
      [] c = "tr-s" -> "s"
      [] c = "tr-i" -> "i"
      [] c = "tr-o" -> "o"
      [] c = "tr-c" -> "c"
      [] OTHER -> c

\* re.sub(r'[^...]', '', s): keep the characters of the set
KeepOnly(s, keep) == SelectSeq(s, LAMBDA c : c \in keep)

\* re.sub(r'[...]+', rep, s): every maximal run of characters of the set becomes rep
CollapseRuns(s, run, rep) ==
    Flatten([i \in 1..Len(s) |->
        IF s[i] \in run
        THEN IF i > 1 /\ s[i - 1] \in run THEN <<>> ELSE <<rep>>
        ELSE <<s[i]>>])

\* str.strip(c)
RECURSIVE LStrip(_, _)
LStrip(s, c) == IF s # <<>> /\ Head(s) = c THEN LStrip(Tail(s), c) ELSE s
RECURSIVE RStrip(_, _)
RStrip(s, c) ==
    IF s # <<>> /\ s[Len(s)] = c THEN RStrip(SubSeq(s, 1, Len(s) - 1), c) ELSE s
Strip(s, c) == RStrip(LStrip(s, c), c)

(***************************************************************************)
(* sanitize_filename, generate_slug, calculate_reading_time                *)
(***************************************************************************)
sanitize_filename(filename) ==
    LET kept == KeepOnly(filename, WordChars \cup Whitespace \cup {"-"})
        hyphened == CollapseRuns(kept, Whitespace \cup {"-"}, "-")
    IN Strip(Lower(hyphened), "-")

\* [a-z0-9-]
SlugChars == AsciiLower \cup Digits \cup {"-"}

\* generate_slug without its last line's strip
generate_slug_unstripped(title) ==
    LET lowered == Lower(title)
        ascii == [i \in 1..Len(lowered) |-> ReplaceTurkish(lowered[i])]
        kept == KeepOnly(ascii, SlugChars \cup Whitespace)
        hyphened == CollapseRuns(kept, Whitespace, "-")
    IN CollapseRuns(hyphened, {"-"}, "-")

generate_slug(title) ==
    LET lowered == Lower(title)
        ascii == [i \in 1..Len(lowered) |-> ReplaceTurkish(lowered[i])]
        kept == KeepOnly(ascii, SlugChars \cup Whitespace)
        hyphened == CollapseRuns(kept, Whitespace, "-")
        single == CollapseRuns(hyphened, {"-"}, "-")
    IN Strip(single, "-")

WORDS_PER_MINUTE == 200

\* len(re.findall(r'\b\w+\b', text)): the maximal runs of word characters
CountWords(t) ==
    Cardinality({i \in 1..Len(t) : t[i] \in WordChars /\ (i = 1 \/ t[i - 1] \notin WordChars)})

Max(a, b) == IF a >= b THEN a ELSE b

\* calculate_reading_time with words // 200 for the rounded-up division
calculate_reading_time_floor(t) == Max(1, CountWords(t) \div WORDS_PER_MINUTE)

calculate_reading_time(t) ==
    Max(1, (CountWords(t) + (WORDS_PER_MINUTE - 1)) \div WORDS_PER_MINUTE)

(***************************************************************************)
(* URLs.  A URL is its host and the segments of its path; a reference (an  *)
(* href or src attribute) also has a form: "absolute" (https://host/p),    *)
(* "protocol-relative" (//host/p), "rooted" (/p) or "relative" (p).        *)
(***************************************************************************)
SITE == "postgrespro.com"
BASE_URL == [host |-> SITE, path |-> <<"blog">>]

Front(s) == SubSeq(s, 1, Len(s) - 1)

\* urllib.parse.urljoin(base, ref)
urljoin(base, ref) ==
    CASE ref.form \in {"absolute", "protocol-relative"} -> [host |-> ref.host, path |-> ref.path]
      [] ref.form = "rooted" -> [host |-> base.host, path |-> ref.path]
      [] OTHER -> [host |-> base.host, path |-> Front(base.path) \o ref.path]

\* '/blog/' in href: a segment blog with a slash before it and one after it
ContainsBlogMarker(href) ==
    \E i \in 1..(Len(href.path) - 1) :
        href.path[i] = "blog" /\ (i > 1 \/ href.form # "relative")

Posts == 1..NumPosts
PostUrl(p) == [host |-> SITE, path |-> <<"blog", ToString(p)>>]
PostUrls == {PostUrl(p) : p \in Posts}

\* the hrefs a listing page may carry: /blog/<p>, https://postgrespro.com/blog/1,
\* blog/2 (relative) and /about
Hrefs ==
    {[form |-> "rooted", host |-> "", path |-> <<"blog", ToString(p)>>] : p \in Posts}
    \cup {[form |-> "absolute", host |-> SITE, path |-> <<"blog", "1">>],
          [form |-> "relative", host |-> "", path |-> <<"blog", "2">>],
          [form |-> "rooted", host |-> "", path |-> <<"about">>]}

SeqsUpTo(S, n) == UNION {[1..k -> S] : k \in 0..n}

\* what a request for a listing page may answer: an error (a network error, a
\* timeout, a status raise_for_status raises on), or a page with its anchors in
\* document order and with or without an a element of class next|pagination
FetchError == [ok |-> FALSE, anchors |-> <<>>, next |-> FALSE]
ListingAnswers ==
    {FetchError}
    \cup [ok : {TRUE}, anchors : SeqsUpTo(Hrefs, MaxAnchors), next : BOOLEAN]

(***************************************************************************)
(* find_all_blog_links                                                     *)
(***************************************************************************)
\* what the model remembers of a listing page: the blog URLs it carries,: its hrefs with the /blog/ marker,
\* resolved
CarriedUrls(answer) ==
    {urljoin(BASE_URL, h) : h \in {answer.anchors[i] : i \in 1..Len(answer.anchors)}
                                  \cap {h \in Hrefs : ContainsBlogMarker(h)}}

\* soup.find_all('a', href=re.compile(r'/blog/'))
post_links(anchors) == SelectSeq(anchors, ContainsBlogMarker)

\* links after the add of the for loop's body, which forgets what was there
add_link_overwriting(ls, full_url) == {full_url}

\* links.add(full_url)
add_link(ls, full_url) == ls \cup {full_url}

\* the for loop over post_links: the links and found_new it ends with
RECURSIVE collect(_, _, _)
collect(as, ls, found_new) ==
    IF as = <<>> THEN [links |-> ls, found_new |-> found_new]
    ELSE LET full_url == urljoin(BASE_URL, Head(as))
         IN IF ContainsBlogMarker(Head(as)) /\ full_url \notin ls
            THEN collect(Tail(as), add_link(ls, full_url), TRUE)
            ELSE collect(Tail(as), ls, found_new)

\* the break condition with and for or
stop_needs_both(found_new, next_link) == ~found_new /\ ~next_link

\* if not found_new or not next_link: break
stop_paging(found_new, next_link) == ~found_new \/ ~next_link

\* the except clause that goes on to the next iteration instead of leaving the loop
pc_after_fetch_error_retry == "crawl"

\* except Exception: ... break
pc_after_fetch_error == "crawled"

\* one iteration of the while loop: request the page, then collect and decide
FetchListingPage ==
    /\ pc = "crawl"
    /\ \E answer \in ListingAnswers :
        /\ requests' = Append(requests, page)
        /\ lastFetch' = Some([ok |-> answer.ok, urls |-> CarriedUrls(answer), next |-> answer.next])
        /\ seenBefore' = links
        /\ IF ~answer.ok
           THEN /\ pc' = pc_after_fetch_error
                /\ UNCHANGED <<page, links, served>>
           ELSE LET got == collect(post_links(answer.anchors), links, FALSE)
                IN /\ links' = got.links
                   /\ served' = served \cup CarriedUrls(answer)
                   /\ IF stop_paging(got.found_new, answer.next)
                      THEN pc' = "crawled" /\ page' = page
                      ELSE pc' = "crawl" /\ page' = page + 1
    /\ UNCHANGED <<mainVars, slugVars, readVars, extractVars>>

(***************************************************************************)
(* A post page, as scrape_blog_post reads it:                              *)
(*   fetch     "ok", or "error" when requests.get or raise_for_status      *)
(*             raises                                                      *)
(*   parse     "ok", or "raises" when a library call on the page raises    *)
(*   h1, title the text of the first h1 and of the title element, or None  *)
(*   time      the first time element: its datetime attribute and text     *)
(*   elems     the elements with a class, in document order                *)
(*   regions   which of the article, main and body elements exist          *)
(*   og, description   the content of the two meta elements, or None       *)
(*   content   the children of the content region, in document order       *)
(***************************************************************************)
S_Untitled == <<"U", "n", "t", "i", "t", "l", "e", "d">>
S_PostgresPro == <<"P", "o", "s", "t", "g", "r", "e", "s", " ", "P", "r", "o">>
S_PostgreSQL == <<"P", "o", "s", "t", "g", "r", "e", "S", "Q", "L">>
S_CompanyUpdates == <<"C", "o", "m", "p", "a", "n", "y", " ", "U", "p", "d", "a", "t", "e", "s">>
S_HelloWorld == <<"H", "e", "l", "l", "o", " ", "W", "o", "r", "l", "d">>
S_HelloWorldBang == <<" ", "H", "e", "l", "l", "o", ",", " ", "W", "o", "r", "l", "d", "!">>
S_Bangs == <<"!", "!", "!">>
S_Blog == <<"B", "l", "o", "g">>
S_Ann == <<"A", "n", "n">>
S_News == <<"N", "e", "w", "s">>
S_pg == <<"p", "g">>
S_sql == <<"s", "q", "l">>
S_Lead == <<"A", " ", "l", "e", "a", "d", ".">>
S_Buy == <<"b", "u", "y", " ", "n", "o", "w">>
S_ImgPng == <<"i", "m", "g", ".", "p", "n", "g">>

\* CATEGORY_MAP, the "tr" entries
CATEGORY_MAP ==
    [c \in {S_PostgreSQL, S_CompanyUpdates} |->
        IF c = S_PostgreSQL THEN S_PostgreSQL
        ELSE <<"TR-S", "i", "r", "k", "e", "t", " ", "G", "tr-u", "n", "c", "e", "l", "l", "e", "m", "e", "l", "e", "r", "i">>]

\* get_text(strip=True) of an element with one text node
RECURSIVE LStripWs(_)
LStripWs(s) == IF s # <<>> /\ Head(s) \in Whitespace THEN LStripWs(Tail(s)) ELSE s
RECURSIVE RStripWs(_)
RStripWs(s) == IF s # <<>> /\ s[Len(s)] \in Whitespace THEN RStripWs(Front(s)) ELSE s
get_text_strip(s) == RStripWs(LStripWs(s))

\* the words of the patterns of scrape_blog_post that a class attribute contains
ClassWords(cls) ==
    CASE cls = "post-date" -> {"date"}
      [] cls = "published" -> {"published"}
      [] cls = "author" -> {"author"}
      [] cls = "byline" -> {"byline"}
      [] cls = "category" -> {"category"}
      [] cls = "tag" -> {"tag"}
      [] cls = "tagline" -> {"tag"}
      [] cls = "keywords" -> {"keyword"}
      [] cls = "post-content" -> {"content"}
      [] cls = "post-body" -> {"post-body"}
      [] OTHER -> {}

\* soup.find_all(class_=re.compile(r'a|b'))
find_all_class(elems, words) == SelectSeq(elems, LAMBDA e : ClassWords(e.cls) \cap words # {})
\* soup.find(class_=re.compile(r'a|b'))
find_class(elems, words) ==
    IF find_all_class(elems, words) = <<>> THEN None ELSE Some(Head(find_all_class(elems, words)))

\* date_str[:19]
Truncate19(d) ==
    CASE d = "2024-01-05T10:00:00+03:00" -> "2024-01-05T10:00:00"
      [] d = "January 5, 2024 at 10:30" -> "January 5, 2024 at "
      [] OTHER -> d

\* the formats of the for loop, in its order
DATE_FORMATS == <<"%Y-%m-%d", "%B %d, %Y", "%d %B %Y", "%Y-%m-%dT%H:%M:%S">>

\* datetime.strptime(d, fmt).isoformat(), or None where strptime raises
strptime(d, fmt) ==
    CASE d = "2024-01-05" /\ fmt = "%Y-%m-%d" -> Some("2024-01-05T00:00:00")
      [] d = "January 5, 2024" /\ fmt = "%B %d, %Y" -> Some("2024-01-05T00:00:00")
      [] d = "5 January 2024" /\ fmt = "%d %B %Y" -> Some("2024-01-05T00:00:00")
      [] d = "2024-01-05T10:00:00" /\ fmt = "%Y-%m-%dT%H:%M:%S" -> Some("2024-01-05T10:00:00")
      [] OTHER -> None

\* datetime.now().isoformat()
NOW == "now"

\* the date of the post: the first format that parses, else now
RECURSIVE parse_date_from(_, _)
parse_date_from(date_str, k) ==
    IF k > Len(DATE_FORMATS) THEN None
    ELSE IF strptime(Truncate19(date_str), DATE_FORMATS[k]) # None
         THEN strptime(Truncate19(date_str), DATE_FORMATS[k])
         ELSE parse_date_from(date_str, k + 1)

extract_date(pg) ==
    LET date_elem == IF pg.time # None THEN pg.time ELSE find_class(pg.elems, {"date", "published"})
        \* a date string is empty or one token, a whole date text; <<>> is also no date_str
        date_str == IF date_elem = None THEN <<>>
                    ELSE IF date_elem[1].datetime \notin {None, Some(<<>>)} THEN date_elem[1].datetime[1]
                    ELSE get_text_strip(date_elem[1].text)
        date == IF date_str = <<>> THEN None ELSE parse_date_from(date_str[1], 1)
    IN IF date = None THEN NOW ELSE date[1]

extract_title(pg) ==
    IF pg.h1 # None THEN get_text_strip(pg.h1[1])
    ELSE IF pg.title # None THEN get_text_strip(pg.title[1])
    ELSE S_Untitled

extract_author(pg) ==
    LET author_elem == find_class(pg.elems, {"author", "byline"})
    IN IF author_elem # None THEN get_text_strip(author_elem[1].text) ELSE S_PostgresPro

extract_category(pg) ==
    LET category_elem == find_class(pg.elems, {"category", "tag"})
    IN IF category_elem # None /\ get_text_strip(category_elem[1].text) \in DOMAIN CATEGORY_MAP
       THEN get_text_strip(category_elem[1].text)
       ELSE S_PostgreSQL

\* the for loop over tag_elems
RECURSIVE collect_tags(_, _)
collect_tags(tag_elems, tags) ==
    IF tag_elems = <<>> THEN tags
    ELSE LET tag_text == get_text_strip(Head(tag_elems).text)
         IN IF tag_text # <<>> /\ \A i \in 1..Len(tags) : tags[i] # tag_text
            THEN collect_tags(Tail(tag_elems), Append(tags, tag_text))
            ELSE collect_tags(Tail(tag_elems), tags)

extract_tags(pg) == collect_tags(find_all_class(pg.elems, {"tag", "keyword"}), <<>>)

\* the content region without the fall-back to body
find_content_region_no_body(pg) ==
    IF "article" \in pg.regions THEN Some("article")
    ELSE IF "main" \in pg.regions THEN Some("main")
    ELSE IF find_class(pg.elems, {"content", "post-body"}) # None THEN Some("class")
    ELSE None

\* soup.find('article') or soup.find('main') or soup.find(class_=...), else soup.find('body')
find_content_region(pg) ==
    IF "article" \in pg.regions THEN Some("article")
    ELSE IF "main" \in pg.regions THEN Some("main")
    ELSE IF find_class(pg.elems, {"content", "post-body"}) # None THEN Some("class")
    ELSE IF "body" \in pg.regions THEN Some("body")
    ELSE None

\* the classes the selectors of clean_html_content match
UnwantedClasses == {"subscribe", "social-share", "newsletter", "advertisement", "ads",
                    "ad-banner", "subscribe-box", "newsletter-form"}

\* content_elem after the decompose of its script, style, nav and footer elements
strip_region(nodes) == SelectSeq(nodes, LAMBDA n : n.tag \notin {"script", "style", "nav", "footer"})

clean_html_content(nodes) ==
    SelectSeq(nodes, LAMBDA n :
        /\ n.tag \notin {"script", "style", "nav", "footer", "header"}
        /\ n.cls \notin UnwantedClasses
        /\ ~(n.tag = "p" /\ get_text_strip(n.text) = <<>>))

\* src.startswith('http')
StartsWithHttp(src) ==
    \/ src.form = "absolute"
    \/ src.form = "relative" /\ src.path # <<>> /\ src.path[1] = "httpdocs"

\* the for loop of extract_images
RECURSIVE extract_images(_, _)
extract_images(nodes, base_url) ==
    IF nodes = <<>> THEN <<>>
    ELSE LET n == Head(nodes)
             attr == IF n.src # None THEN n.src ELSE n.dataSrc
             src == attr[1]
         IN IF n.tag = "img" /\ attr # None
            THEN <<IF src.form \in {"protocol-relative", "rooted"} \/ ~StartsWithHttp(src)
                   THEN urljoin(base_url, src)
                   ELSE IF src.form = "absolute" THEN [host |-> src.host, path |-> src.path]
                   ELSE src>>
                 \o extract_images(Tail(nodes), base_url)
            ELSE extract_images(Tail(nodes), base_url)

\* the characters of a path segment
Chars(segment) ==
    CASE segment = "img.png" -> S_ImgPng
      [] segment = "My Chart.PNG" -> <<"M", "y", " ", "C", "h", "a", "r", "t", ".", "P", "N", "G">>
      [] segment = "logo" -> <<"l", "o", "g", "o">>
      [] OTHER -> <<>>

\* os.path.splitext(name)[1]: from the last dot on, unless the name starts with it
SplitExt(name) ==
    LET dots == {i \in 2..Len(name) : name[i] = "."}
    IN IF dots = {} THEN <<>>
       ELSE SubSeq(name, CHOOSE i \in dots : \A j \in dots : j <= i, Len(name))

EndsWith(s, suffix) ==
    Len(suffix) <= Len(s) /\ SubSeq(s, Len(s) - Len(suffix) + 1, Len(s)) = suffix

\* download_image(img_url, slug): the path /blog/<slug>/<filename> it returns, or
\* None when the request fails
download_image(img_url, slug, fetched) ==
    IF ~fetched THEN None
    ELSE Some(LET base == IF img_url.path = <<>> THEN <<>> ELSE Chars(img_url.path[Len(img_url.path)])
             ext == IF SplitExt(base) = <<>> THEN <<".", "j", "p", "g">> ELSE SplitExt(base)
             name == IF sanitize_filename(base) = <<>> THEN <<"i", "m", "a", "g", "e">>
                     ELSE sanitize_filename(base)
         IN [root |-> "blog", slug |-> slug,
             filename |-> IF EndsWith(name, ext) THEN name ELSE name \o ext])

\* the except clause of scrape_blog_post left out: the exception goes to the caller
raise_to_caller(why) == [kind |-> "raise", why |-> why, post |-> None]

\* except Exception: print and return None
return_none(why) == [kind |-> "none", why |-> why, post |-> None]

first_paragraph(nodes) == SelectSeq(nodes, LAMBDA n : n.tag = "p")

scrape_blog_post(url, pg) ==
    IF pg.fetch # "ok" THEN return_none("fetch")
    ELSE IF pg.parse # "ok" THEN return_none("exception")
    ELSE IF find_content_region(pg) = None THEN [kind |-> "none", why |-> "no-content", post |-> None]
    ELSE LET title == extract_title(pg)
             category == extract_category(pg)
             tags == extract_tags(pg)
             region == strip_region(pg.content)
             content_html == [region |-> find_content_region(pg)[1], nodes |-> clean_html_content(region)]
             meta == IF pg.og # None THEN pg.og[1]
                     ELSE IF pg.description # None THEN pg.description[1]
                     ELSE <<>>
             first_p == first_paragraph(region)
             excerpt == IF meta # <<>> THEN meta
                        ELSE IF first_p # <<>>
                             THEN SubSeq(get_text_strip(first_p[1].text), 1,
                                         IF Len(get_text_strip(first_p[1].text)) < 200
                                         THEN Len(get_text_strip(first_p[1].text)) ELSE 200)
                             ELSE <<>>
             content_text == Flatten([i \in 1..Len(region) |-> region[i].text])
         IN [kind |-> "post", why |-> "ok", post |->
                [title |-> title,
                 titleTr |-> title,
                 slug |-> generate_slug(title),
                 date |-> extract_date(pg),
                 author |-> extract_author(pg),
                 category |-> category,
                 categoryTr |-> CATEGORY_MAP[category],
                 tags |-> tags,
                 tagsTr |-> tags,
                 sourceUrl |-> url,
                 canonicalUrl |-> url,
                 excerpt |-> excerpt,
                 excerptTr |-> excerpt,
                 content |-> content_html,
                 contentTr |-> content_html,
                 readingTime |-> calculate_reading_time(content_text),
                 heroImage |-> None,
                 images |-> extract_images(content_html.nodes, url),
                 published |-> TRUE]]

(***************************************************************************)
(* The pages the model is run on                                           *)
(***************************************************************************)
Repeat(unit, n) == [i \in 1..(n * Len(unit)) |-> unit[((i - 1) % Len(unit)) + 1]]

Node(tag, cls, txt) == [tag |-> tag, cls |-> cls, text |-> txt, src |-> None, dataSrc |-> None]
Img(src, dataSrc) == [tag |-> "img", cls |-> "", text |-> <<>>, src |-> src, dataSrc |-> dataSrc]
Ref(form, host, path) == [form |-> form, host |-> host, path |-> path]
Elem(cls, txt) == [cls |-> cls, text |-> txt, datetime |-> None]

\* a text of 201 words and 402 characters
S_Long == Repeat(<<"w", " ">>, WORDS_PER_MINUTE + 1)

Content_Empty == <<>>
Content_Plain ==
    <<Node("p", "", S_Lead), Img(Some(Ref("rooted", "", <<"assets", "img.png">>)), None)>>
Content_Noisy ==
    <<Node("script", "", S_Buy),
      Node("p", "", <<" ">>),
      Node("div", "ads", S_Buy),
      Img(None, Some(Ref("relative", "", <<"My Chart.PNG">>))),
      Img(Some(Ref("protocol-relative", "cdn.x", <<"logo">>)), None),
      Img(Some(Ref("relative", "", <<"httpdocs", "img.png">>)), None),
      Img(None, None),
      Node("p", "", S_Long)>>

NoElems == <<>>
ElemLists ==
    {NoElems,
     <<Elem("post-date", <<"January 5, 2024 at 10:30">>)>>,
     <<Elem("published", <<"5 January 2024">>)>>,
     <<Elem("byline", S_Ann), Elem("category", S_CompanyUpdates), Elem("tag", S_pg),
       Elem("keywords", S_sql), Elem("tag", <<" ", "p", "g", " ">>), Elem("tag", <<>>)>>,
     <<Elem("tagline", S_News), Elem("author", <<>>)>>,
     <<Elem("post-content", <<>>)>>}

TimeElems ==
    {None,
     Some([datetime |-> None, text |-> <<"yesterday">>]),
     Some([datetime |-> Some(<<"2024-01-05T10:00:00+03:00">>), text |-> <<"yesterday">>]),
     Some([datetime |-> Some(<<>>), text |-> <<" ", "January 5, 2024">>])}

\* the pages scrape_blog_post is run on, on its own
ExtractPages ==
    [fetch : {"ok", "error"},
     parse : {"ok", "raises"},
     h1 : {None, Some(<<>>), Some(S_Bangs), Some(S_HelloWorldBang)},
     title : {None, Some(S_Blog)},
     time : TimeElems,
     elems : ElemLists,
     regions : {{}, {"body"}, {"article", "body"}, {"main", "body"}},
     og : {None, Some(<<>>), Some(S_Lead)},
     description : {None, Some(S_News)},
     content : {Content_Empty, Content_Plain, Content_Noisy}]

\* the pages the posts of the site may answer with in a run of main
MainPages ==
    [fetch : {"ok", "error"},
     parse : {"ok", "raises"},
     h1 : {None, Some(S_HelloWorld), Some(S_HelloWorldBang), Some(S_Bangs)},
     title : {None},
     time : {None},
     elems : {NoElems},
     regions : {{}, {"body"}},
     og : {None},
     description : {None},
     content : {Content_Empty, Content_Plain}]

(***************************************************************************)
(* main                                                                    *)
(***************************************************************************)
\* blog_urls = find_all_blog_links(BASE_URL); scraped_count = 0.  The locals of
\* find_all_blog_links, and what the model remembers of its run, end with it.
ReturnLinks ==
    /\ pc = "crawled"
    /\ pc' = "loop"
    /\ blog_urls' = links
    /\ todo' = links
    /\ scraped_count' = 0
    /\ page' = 0
    /\ links' = {}
    /\ requests' = <<>>
    /\ lastFetch' = None
    /\ seenBefore' = {}
    /\ served' = {}
    /\ UNCHANGED <<files, calls, outcome, writes, downloads, slugVars, readVars, extractVars>>

\* open(json_path, 'w') and json.dump: the file of the slug is created or replaced
write_json(fs, slug, post) == [s \in DOMAIN fs \cup {slug} |-> IF s = slug THEN post ELSE fs[s]]

\* one iteration of the for loop, over a set, whose order Python does not fix.  An
\* exception of scrape_blog_post that main does not catch ends the run.
ScrapeNext ==
    /\ pc = "loop"
    /\ \E url \in todo, pg \in MainPages :
        LET result == scrape_blog_post(url, pg)
        IN /\ todo' = todo \ {url}
           /\ calls' = [calls EXCEPT ![url] = @ + 1]
           /\ outcome' = [outcome EXCEPT ![url] = result.why]
           /\ pc' = IF result.kind = "raise" THEN "aborted" ELSE "loop"
           /\ IF result.kind = "post"
              THEN /\ files' = write_json(files, result.post.slug, result.post)
                   /\ scraped_count' = scraped_count + 1
                   /\ writes' = Append(writes, [url |-> url, slug |-> result.post.slug])
              ELSE UNCHANGED <<files, scraped_count, writes>>
    /\ UNCHANGED <<blog_urls, downloads, page, links, requests, lastFetch, seenBefore, served,
                   slugVars, readVars, extractVars>>

\* the for loop is over: print the summary
PrintSummary ==
    /\ pc = "loop"
    /\ todo = {}
    /\ pc' = "done"
    /\ UNCHANGED <<page, links, requests, lastFetch, seenBefore, served,
                   mainVars, slugVars, readVars, extractVars>>

(***************************************************************************)
(* Specifications                                                          *)
(***************************************************************************)
CrawlIdle ==
    /\ pc = "idle"
    /\ page = 0
    /\ links = {}
    /\ requests = <<>>
    /\ lastFetch = None
    /\ seenBefore = {}
    /\ served = {}

MainIdle ==
    /\ blog_urls = {}
    /\ todo = {}
    /\ scraped_count = 0
    /\ files = <<>>
    /\ calls = [u \in PostUrls |-> 0]
    /\ outcome = [u \in PostUrls |-> "not-called"]
    /\ writes = <<>>
    /\ downloads = {}

SlugIdle == slugIn = <<>> /\ slugOut = None /\ slugAgain = None
ReadIdle == text = <<>> /\ minutes = None
ExtractIdle == exUrl = PostUrl(1) /\ exPage = None /\ exResult = None

\* main has made its directories and has entered find_all_blog_links
Init ==
    /\ pc = "crawl"
    /\ page = 1
    /\ links = {}
    /\ requests = <<>>
    /\ lastFetch = None
    /\ seenBefore = {}
    /\ served = {}
    /\ MainIdle /\ SlugIdle /\ ReadIdle /\ ExtractIdle

Next == FetchListingPage \/ ReturnLinks \/ ScrapeNext \/ PrintSummary

Spec == Init /\ [][Next]_vars

\* main runs on: a step it can take, it takes
FairSpec == Spec /\ WF_vars(Next)

\* generate_slug on every title of up to MaxTitleLen characters of TitleChars
TitleChars == {"a", "B", "7", " ", "-", "!", "_", "tr-s", "TR-I", "NBSP"}

SlugInit ==
    /\ slugIn \in SeqsUpTo(TitleChars, MaxTitleLen)
    /\ slugOut = None
    /\ slugAgain = None
    /\ CrawlIdle /\ MainIdle /\ ReadIdle /\ ExtractIdle

Slugify ==
    /\ slugOut = None
    /\ slugOut' = Some(generate_slug(slugIn))
    /\ UNCHANGED <<slugIn, slugAgain, crawlVars, mainVars, readVars, extractVars>>

SlugifyAgain ==
    /\ slugOut # None
    /\ slugAgain = None
    /\ slugAgain' = Some(generate_slug(slugOut[1]))
    /\ UNCHANGED <<slugIn, slugOut, crawlVars, mainVars, readVars, extractVars>>

SlugNext == Slugify \/ SlugifyAgain

SlugSpec == SlugInit /\ [][SlugNext]_vars

\* calculate_reading_time on every text that repeats a unit up to MaxRepeat times
S_Word == <<"w", "o", "r", "d", " ">>
TextUnits == {S_Word, <<"a", "-", "b", " ">>, <<"w">>, <<" ">>, <<"_", "!">>}

ReadInit ==
    /\ text \in {Repeat(unit, n) : unit \in TextUnits, n \in 0..MaxRepeat}
    /\ minutes = None
    /\ CrawlIdle /\ MainIdle /\ SlugIdle /\ ExtractIdle

EstimateReadingTime ==
    /\ minutes = None
    /\ minutes' = Some(calculate_reading_time(text))
    /\ UNCHANGED <<text, crawlVars, mainVars, slugVars, extractVars>>

ReadSpec == ReadInit /\ [][EstimateReadingTime]_vars

\* scrape_blog_post on every page of ExtractPages
ExtractInit ==
    /\ exUrl = PostUrl(1)
    /\ exPage \in {Some(pg) : pg \in ExtractPages}
    /\ exResult = None
    /\ CrawlIdle /\ MainIdle /\ SlugIdle /\ ReadIdle

Extract ==
    /\ exResult = None
    /\ exResult' = Some(scrape_blog_post(exUrl, exPage[1]))
    /\ UNCHANGED <<exUrl, exPage, crawlVars, mainVars, slugVars, readVars>>

ExtractSpec == ExtractInit /\ [][Extract]_vars

(***************************************************************************)
(* Properties                                                              *)
(***************************************************************************)
\* the last requested listing page was fetched and gave no URL that links did not
\* have, or had no next/pagination link
LastPageStops ==
    /\ lastFetch # None
    /\ lastFetch[1].ok
    /\ (lastFetch[1].urls \subseteq seenBefore \/ ~lastFetch[1].next)

\* C1: find_all_blog_links stops after the first listing page that adds no new URL
\* or has no next/pagination link: after such a page the loop is left, and a page is
\* only ever requested when no earlier page was such a page.
C1_StopsAtFirstStopPage ==
    /\ [](LastPageStops => pc # "crawl")
    /\ [][Len(requests') > Len(requests) => ~LastPageStops]_vars

\* a second page with a next link and only URLs already collected: the loop is left
C1_Witness ==
    /\ pc = "crawled"
    /\ Len(requests) = 2
    /\ lastFetch[1].ok
    /\ lastFetch[1].next
    /\ lastFetch[1].urls # {}
    /\ lastFetch[1].urls \subseteq seenBefore

FailureKinds == {"fetch", "exception", "no-content"}

WritesOf(u) == {i \in 1..Len(writes) : writes[i].url = u}

\* C2: main passes every URL the crawler returned to scrape_blog_post exactly once,
\* whatever the earlier URLs ended as; a URL whose extraction failed has no record
\* written; no exception ends the run, and the run reaches its summary.
C2_FailuresDoNotAbort ==
    /\ [](/\ pc # "aborted"
          /\ \A u \in PostUrls :
                /\ calls[u] <= 1
                /\ pc \in {"loop", "done"} => (calls[u] = 1 <=> u \in blog_urls \ todo)
                /\ outcome[u] \in FailureKinds => WritesOf(u) = {}
                /\ outcome[u] = "ok" => Cardinality(WritesOf(u)) = 1
          /\ pc = "done" => \A u \in blog_urls : calls[u] = 1)
    /\ <>(pc = "done")

\* a run to the summary in which three URLs failed in the three ways
C2_Witness ==
    /\ pc = "done"
    /\ Cardinality(blog_urls) >= 3
    /\ FailureKinds \subseteq {outcome[u] : u \in blog_urls}
    /\ \A u \in blog_urls : calls[u] = 1

\* C3: every saved post has a file of its own: no write replaces a file written
\* earlier in the run, and the files are as many as the posts counted.
C3_DistinctPaths ==
    /\ \A i, j \in 1..Len(writes) : i # j => writes[i].slug # writes[j].slug
    /\ Cardinality(DOMAIN files) = scraped_count

\* C4: the slug of every record scrape_blog_post returns is non-empty and of the
\* characters [a-z0-9-].
C4_SlugNonEmpty ==
    (exResult # None /\ exResult[1].kind = "post") =>
        /\ exResult[1].post.slug # <<>>
        /\ \A i \in 1..Len(exResult[1].post.slug) : exResult[1].post.slug[i] \in SlugChars

\* C5: generate_slug(x) has only characters of [a-z0-9-], no two hyphens in a row,
\* no hyphen at either end, and generate_slug(generate_slug(x)) = generate_slug(x).
C5_SlugShape ==
    /\ slugOut # None =>
        LET slug == slugOut[1]
        IN /\ \A i \in 1..Len(slug) : slug[i] \in SlugChars
           /\ \A i \in 1..(Len(slug) - 1) : ~(slug[i] = "-" /\ slug[i + 1] = "-")
           /\ slug # <<>> => slug[1] # "-" /\ slug[Len(slug)] # "-"
    /\ slugAgain # None => slugAgain = slugOut

\* a title with something to remove, something to join and a hyphen at an end
C5_Witness ==
    /\ slugAgain # None
    /\ Len(slugOut[1]) = 3
    /\ slugOut[1][2] = "-"
    /\ Len(slugIn) > 3
    /\ slugIn[1] \in {"-", " "}

\* C6: calculate_reading_time is max(1, ceil(w / 200)) for a text of w words: 1 up
\* to 200 words, 2 for 201 to 400, 3 for 450.
C6_ReadingTime ==
    minutes # None =>
        LET w == CountWords(text)
            n == Len(text) \div Len(S_Word)
        IN /\ minutes[1] >= 1
           /\ w <= 200 * minutes[1]
           /\ w > 200 => w > 200 * (minutes[1] - 1)
           /\ text = Repeat(S_Word, n) =>
                /\ w = n
                /\ n <= 200 => minutes[1] = 1
                /\ n \in 201..400 => minutes[1] = 2
                /\ n = 450 => minutes[1] = 3

\* "word " 450 times reads in 3 minutes
C6_Witness == minutes = Some(3) /\ text = Repeat(S_Word, 450)

\* C7: main has download_image called for the images of every post it saves, and
\* an image that was downloaded is in the saved record as its path /blog/<slug>/<name>.
C7_ImagesDownloaded ==
    \A slug \in DOMAIN files :
        \A i \in 1..Len(files[slug].images) :
            \E d \in downloads :
                /\ d.slug = slug
                /\ d.fetched => files[slug].images[i] = download_image(d.img_url, slug, TRUE)[1]
                /\ ~d.fetched => files[slug].images[i] = d.img_url

\* C8: a listing page whose request fails ends the paging: the loop is left with
\* the links of the pages before it, which are the URLs those pages carried, and
\* nothing is raised.
C8_FetchFailureEndsPaging ==
    (lastFetch # None /\ ~lastFetch[1].ok) =>
        /\ pc = "crawled"
        /\ links = seenBefore
        /\ links = served
        /\ page = Len(requests)
        /\ Len(requests) = 1 => links = {}

\* the request for page 2 fails after page 1 gave URLs
C8_Witness ==
    /\ pc = "crawled"
    /\ lastFetch # None
    /\ ~lastFetch[1].ok
    /\ Len(requests) = 2
    /\ links # {}

HasContentRegion(pg) ==
    \/ pg.regions \cap {"article", "main", "body"} # {}
    \/ \E i \in 1..Len(pg.elems) : pg.elems[i].cls \in {"post-content", "post-body"}

ClassesOf(pg) == {pg.elems[i].cls : i \in 1..Len(pg.elems)}

\* C9: scrape_blog_post returns a record for every fetched page with a content
\* region and raises nothing; a title, date, author, category, tags or excerpt that
\* is missing or does not parse is its default in the record.
C9_DefaultsNotFailures ==
    exResult # None =>
        LET pg == exPage[1]
            result == exResult[1]
            post == result.post
        IN /\ result.kind # "raise"
           /\ (pg.fetch = "ok" /\ pg.parse = "ok") => (result.kind = "post" <=> HasContentRegion(pg))
           /\ result.kind = "post" =>
                /\ (pg.h1 = None /\ pg.title = None) => post.title = S_Untitled
                /\ post.date \in {NOW, "2024-01-05T00:00:00", "2024-01-05T10:00:00"}
                /\ (pg.time = None /\ ClassesOf(pg) \cap {"post-date", "published"} = {})
                        => post.date = NOW
                /\ (pg.time = None /\ "post-date" \in ClassesOf(pg)) => post.date = NOW
                /\ (pg.time # None /\ pg.time[1].datetime = None) => post.date = NOW
                /\ ClassesOf(pg) \cap {"author", "byline"} = {} => post.author = S_PostgresPro
                /\ ClassesOf(pg) \cap {"category", "tag", "tagline"} = {}
                        => post.category = S_PostgreSQL
                /\ "tagline" \in ClassesOf(pg) => post.category = S_PostgreSQL
                /\ ClassesOf(pg) \cap {"tag", "tagline", "keywords"} = {} => post.tags = <<>>
                /\ (pg.og = None /\ pg.description = None /\ pg.content = Content_Empty)
                        => post.excerpt = <<>>

\* a fetched page with a body and nothing else: the record has every default
C9_Witness ==
    /\ exResult # None
    /\ exResult[1].kind = "post"
    /\ exPage[1].h1 = None /\ exPage[1].title = None /\ exPage[1].time = None
    /\ exPage[1].elems = NoElems /\ exPage[1].regions = {"body"}
    /\ exPage[1].og = None /\ exPage[1].description = None
    /\ exPage[1].content = Content_Empty
    /\ exResult[1].post.title = S_Untitled
    /\ exResult[1].post.date = NOW

====
